---------------------------- MODULE Spec2Model ----------------------------
(***************************************************************************)
(* A model of the nbt crate: the numeric codec (lib.rs), the tag data      *)
(* model (types.rs), the conversion layer (traits.rs), the encoder         *)
(* (encode.rs) and the decoder (decode.rs).                                *)
(*                                                                         *)
(* Representation.  TLC's integers are 32 bits wide, so a fixed-width      *)
(* Rust number (i8, i16, i32, i64, and f32/f64 taken as bit patterns) is   *)
(* the set of the positions of its 1 bits: i16 0x0101 is {0, 8}, i8 -1 is  *)
(* 0..7.  Shifts, casts and bitwise or are computed on these bit sets the  *)
(* way the machine computes them.  A u8 of a stream is a number in 0..255. *)
(* A Rust String is the sequence of its UTF-8 bytes.                       *)
(***************************************************************************)
EXTENDS Integers, Sequences, FiniteSets, TLC

VARIABLES
    sink,      \* the bytes the Encoder's writer has received (a Vec<u8>)
    flushes,   \* how many times the writer was flushed
    wlog,      \* one entry per Encoder::write_tag call: its arguments and result
    dec,       \* "none": no Decoder yet; "ready"; "panicked": a read_tag call unwound
    stream,    \* the bytes behind the Decoder's reader
    pos,       \* the reader's cursor: how many bytes of stream were consumed
    rlog,      \* one entry per Decoder::read_tag call: its result
    call,      \* the last call of a pure function (codec, type codes, from_nbt)
    ret        \* what that call returned

vars == <<sink, flushes, wlog, dec, stream, pos, rlog, call, ret>>

\* ------------------------------------------------------------------------
\* Option<T>
\* ------------------------------------------------------------------------
None == [some |-> FALSE]
Some(x) == [some |-> TRUE, v |-> x]

\* ------------------------------------------------------------------------
\* Fixed-width numbers as bit sets
\* ------------------------------------------------------------------------
Pow2(n) == 2 ^ n

\* the bits of a u8
ByteBits(b) == {i \in 0..7 : (b \div Pow2(i)) % 2 = 1}

RECURSIVE BitsToNat(_)
\* the number a set of bit positions below 31 stands for
BitsToNat(x) ==
    IF x = {} THEN 0
    ELSE LET i == CHOOSE j \in x : TRUE IN Pow2(i) + BitsToNat(x \ {i})

\* the two's-complement bits, in width w, of a TLC integer n
IntBits(n, w) ==
    {i \in 0..(w - 1) : IF i < 31 THEN (n \div Pow2(i)) % 2 = 1 ELSE n < 0}

\* the value of a w-bit signed number, w <= 32, as a TLC integer
SignedVal(x, w) ==
    IF (w - 1) \in x
    THEN (BitsToNat(x \ {w - 1}) - Pow2(w - 2)) - Pow2(w - 2)
    ELSE BitsToNat(x)

\* Rust's >> on a signed integer of width w: arithmetic shift
Shr(x, n, w) ==
    {i - n : i \in {j \in x : j >= n}}
        \cup (IF (w - 1) \in x THEN (w - n)..(w - 1) ELSE {})

\* Rust's << on an integer of width w: the bits shifted out are lost
Shl(x, n, w) == {i + n : i \in {j \in x : j + n < w}}

\* `as u8` of an integer: the low 8 bits
AsU8(x) == BitsToNat(x \cap (0..7))

\* `as $t` of a u8, $t of width w: the same 8 bits (zero extension; for i8 a
\* reinterpretation)
U8As(b, w) == ByteBits(b) \cap (0..(w - 1))

\* `as $t` of a signed integer of width w to a signed integer of width w2:
\* truncation when narrowing, sign extension when widening
IntAs(x, w, w2) ==
    IF w2 <= w THEN x \cap (0..(w2 - 1))
    ELSE x \cup (IF (w - 1) \in x THEN w..(w2 - 1) ELSE {})

\* `as $t` of a usize n (below 2^31): the low w bits
UsizeAs(n, w) == IntBits(n, w)

\* std::mem::transmute between a float and the integer of its width: the
\* same bits (floats are kept as bit patterns)
transmute(x) == x

\* ------------------------------------------------------------------------
\* lib.rs: the numeric codec
\* ------------------------------------------------------------------------
NumTypes == {"i8", "i16", "i32", "i64", "f32", "f64"}

\* size_of::<T>(), and the $s of make_decodable!
size_of(t) ==
    CASE t = "i8" -> 1 [] t = "i16" -> 2 [] t = "i32" -> 4 [] t = "i64" -> 8
      [] t = "f32" -> 4 [] t = "f64" -> 8

Width(t) == 8 * size_of(t)

\* the integer type a float is transmuted to, `$t => $c`
CarrierOf(t) == CASE t = "f32" -> "i32" [] t = "f64" -> "i64" [] OTHER -> t

\* the shift list of make_encodable!, from left to right
EncodeShifts(t) ==
    CASE t = "i8" -> <<0>>
      [] t = "i16" -> <<8, 0>>
      [] t = "i32" -> <<24, 16, 8, 0>>
      [] t = "i64" -> <<56, 48, 40, 32, 24, 16, 8, 0>>

\* the index list of make_decodable!
DecodeIndexes(t) ==
    CASE t = "i8" -> <<0>>
      [] t = "i16" -> <<0, 1>>
      [] t = "i32" -> <<0, 1, 2, 3>>
      [] t = "i64" -> <<0, 1, 2, 3, 4, 5, 6, 7>>

to_bytes_little_endian(t, x) ==
    LET c == CarrierOf(t)
        sh == EncodeShifts(c)
    IN [k \in 1..Len(sh) |-> AsU8(Shr(transmute(x), sh[Len(sh) + 1 - k], Width(c)))]

\* Encodable::to_bytes: vec![ (*self >> $n) as u8, ... ]
to_bytes(t, x) ==
    LET c == CarrierOf(t)
        sh == EncodeShifts(c)
    IN [k \in 1..Len(sh) |-> AsU8(Shr(transmute(x), sh[k], Width(c)))]

from_bytes_prefix(t, d) ==
    LET c == CarrierOf(t)
        s == size_of(c)
        ix == DecodeIndexes(c)
    IN IF Len(d) < s THEN None
       ELSE Some(transmute(UNION {Shl(U8As(d[ix[k] + 1], Width(c)),
                                      8 * (s - ix[k] - 1), Width(c))
                                  : k \in 1..Len(ix)}))

\* Decodable::from_bytes: None unless d.len() == $s, else the bitwise or of
\* (d[$n] as $t) << (8 * ($s - $n - 1)); a float goes through its carrier
from_bytes(t, d) ==
    LET c == CarrierOf(t)
        s == size_of(c)
        ix == DecodeIndexes(c)
    IN IF Len(d) # s THEN None
       ELSE Some(transmute(UNION {Shl(U8As(d[ix[k] + 1], Width(c)),
                                      8 * (s - ix[k] - 1), Width(c))
                                  : k \in 1..Len(ix)}))

\* ------------------------------------------------------------------------
\* types.rs: TagType and its binary code
\* ------------------------------------------------------------------------
TagTypes == {"End", "Byte", "Short", "Int", "Long", "Float", "Double",
             "String", "ByteArray", "IntArray", "List", "Compound"}

from_binary_string_first(t) ==
    CASE t = 0 -> Some("End")
      [] t = 1 -> Some("Byte")
      [] t = 2 -> Some("Short")
      [] t = 3 -> Some("Int")
      [] t = 4 -> Some("Long")
      [] t = 5 -> Some("Float")
      [] t = 6 -> Some("Double")
      [] t = 7 -> Some("String")
      [] t = 8 -> Some("ByteArray")
      [] t = 9 -> Some("List")
      [] t = 10 -> Some("Compound")
      [] t = 11 -> Some("IntArray")
      [] OTHER -> None

from_binary_long_array(t) ==
    CASE t = 0 -> Some("End")
      [] t = 1 -> Some("Byte")
      [] t = 2 -> Some("Short")
      [] t = 3 -> Some("Int")
      [] t = 4 -> Some("Long")
      [] t = 5 -> Some("Float")
      [] t = 6 -> Some("Double")
      [] t = 7 -> Some("ByteArray")
      [] t = 8 -> Some("String")
      [] t = 9 -> Some("List")
      [] t = 10 -> Some("Compound")
      [] t = 11 -> Some("IntArray")
      [] t = 12 -> Some("IntArray")
      [] OTHER -> None

\* TagType::from_binary
from_binary(t) ==
    CASE t = 0 -> Some("End")
      [] t = 1 -> Some("Byte")
      [] t = 2 -> Some("Short")
      [] t = 3 -> Some("Int")
      [] t = 4 -> Some("Long")
      [] t = 5 -> Some("Float")
      [] t = 6 -> Some("Double")
      [] t = 7 -> Some("ByteArray")
      [] t = 8 -> Some("String")
      [] t = 9 -> Some("List")
      [] t = 10 -> Some("Compound")
      [] t = 11 -> Some("IntArray")
      [] OTHER -> None

\* TagType::to_binary
to_binary(t) ==
    CASE t = "End" -> 0
      [] t = "Byte" -> 1
      [] t = "Short" -> 2
      [] t = "Int" -> 3
      [] t = "Long" -> 4
      [] t = "Float" -> 5
      [] t = "Double" -> 6
      [] t = "ByteArray" -> 7
      [] t = "String" -> 8
      [] t = "List" -> 9
      [] t = "Compound" -> 10
      [] t = "IntArray" -> 11


\* ------------------------------------------------------------------------
\* types.rs: Tag, ListData, CompoundData
\* ------------------------------------------------------------------------
\* Tag::End
TagEnd == [type |-> "End"]
\* Tag::Byte(x) .. Tag::Double(x); t is the variant, x the payload's bits
TagScalar(t, x) == [type |-> t, val |-> x]
\* Tag::String(s)
TagString(s) == [type |-> "String", str |-> s]
\* Tag::ByteArray(v)
TagByteArray(v) == [type |-> "ByteArray", bytes |-> v]
\* Tag::IntArray(v)
TagIntArray(v) == [type |-> "IntArray", ints |-> v]
\* Tag::List(ListData { element_type, elements })
TagList(et, es) == [type |-> "List", element_type |-> et, elements |-> es]
\* Tag::Compound(CompoundData { elements }): a function from names to tags
TagCompound(m) == [type |-> "Compound", map |-> m]

\* Tag::get_type
get_type(tag) == tag.type

ScalarTypes == {"Byte", "Short", "Int", "Long", "Float", "Double"}

\* the Rust type of a scalar variant's payload
PayloadType(t) ==
    CASE t = "Byte" -> "i8" [] t = "Short" -> "i16" [] t = "Int" -> "i32"
      [] t = "Long" -> "i64" [] t = "Float" -> "f32" [] t = "Double" -> "f64"

\* ------------------------------------------------------------------------
\* traits.rs: FromNbt
\* ------------------------------------------------------------------------
FromNbtTargets == {"i8", "i16", "i32", "i64", "f32", "f64", "String"}

fromnbt_paths_all_integers(target) ==
    CASE target \in {"i8", "i16", "i32", "i64"} -> {"Byte", "Short", "Int", "Long"}
      [] target = "f32" -> {"Float"}
      [] target = "f64" -> {"Float", "Double"}
      [] target = "String" -> {"String"}

\* the $p list of each fromnbt_impl! line
fromnbt_paths(target) ==
    CASE target = "i8" -> {"Byte"}
      [] target = "i16" -> {"Byte", "Short"}
      [] target = "i32" -> {"Byte", "Short", "Int"}
      [] target = "i64" -> {"Byte", "Short", "Int", "Long"}
      [] target = "f32" -> {"Float"}
      [] target = "f64" -> {"Float", "Double"}
      [] target = "String" -> {"String"}

\* `as f64` of an f32, on the bit patterns: the same real number.  A NaN keeps
\* its payload bits and is made quiet.
f32_as_f64(x) ==
    LET S == IF 31 \in x THEN {63} ELSE {}
        e == BitsToNat({i - 23 : i \in x \cap (23..30)})
        m == x \cap (0..22)
        h == CHOOSE i \in m : \A j \in m : j <= i
    IN CASE e = 255 ->
              S \cup (52..62) \cup {i + 29 : i \in m} \cup (IF m # {} THEN {51} ELSE {})
         [] e = 0 /\ m = {} -> S
         [] e = 0 /\ m # {} ->
              S \cup {i + 52 : i \in IntBits(h + 874, 11)}
                \cup {i + 52 - h : i \in m \ {h}}
         [] OTHER ->
              S \cup {i + 52 : i \in IntBits(e + 896, 11)} \cup {i + 29 : i \in m}

\* `x.clone() as $t`
CastAs(from, x, target) ==
    CASE target = "String" -> x
      [] from = "f32" /\ target = "f64" -> f32_as_f64(x)
      [] from \in {"f32", "f64"} -> x
      [] OTHER -> IntAs(x, Width(from), Width(target))

\* FromNbt::from_nbt for $t = target
from_nbt(target, val) ==
    IF get_type(val) \in fromnbt_paths(target)
    THEN IF get_type(val) = "String" THEN Some(val.str)
         ELSE Some(CastAs(PayloadType(get_type(val)), val.val, target))
    ELSE None


\* ------------------------------------------------------------------------
\* encode.rs.  The writer is an in-memory sink (a Vec<u8>): every write takes
\* all the bytes it is given and neither write nor flush fails.  A step's
\* outcome is the bytes it wrote, how often it flushed, how many of the bytes
\* it wrote after its last flush (pending), and its Result.
\* ------------------------------------------------------------------------
Wrote(bs) == [bytes |-> bs, flushes |-> 0, pending |-> Len(bs), res |-> "Ok"]
WriteErr(e) == [bytes |-> <<>>, flushes |-> 0, pending |-> 0, res |-> e]
Flushed == [bytes |-> <<>>, flushes |-> 1, pending |-> 0, res |-> "Ok"]

AndThenIgnoringErr(r1, r2) ==
    [bytes |-> r1.bytes \o r2.bytes, flushes |-> r1.flushes + r2.flushes,
     pending |-> IF r2.flushes > 0 THEN r2.pending ELSE r1.pending + r2.pending,
     res |-> IF r1.res # "Ok" THEN r1.res ELSE r2.res]

\* try!(r1); r2: the first error returns, and r2 is not run
AndThen(r1, r2) ==
    IF r1.res # "Ok" THEN r1
    ELSE [bytes |-> r1.bytes \o r2.bytes, flushes |-> r1.flushes + r2.flushes,
          pending |-> IF r2.flushes > 0 THEN r2.pending ELSE r1.pending + r2.pending,
          res |-> r2.res]

\* write_primitive::<W, T>(writer, i), T = t
write_primitive(t, i) == Wrote(to_bytes(t, i))

\* write_string(writer, s)
write_string(s) == AndThen(write_primitive("i16", UsizeAs(Len(s), 16)), Wrote(s))

\* the keys of a HashMap in the order its iterator yields them; the order is
\* unspecified, and ord (a sequence holding every name once) stands for it
IterOrder(m, ord) ==
    LET Has(n) == n \in DOMAIN m IN SelectSeq(ord, Has)

RECURSIVE write_value(_, _), write_tag(_, _, _), WriteElements(_, _, _), WriteEntries(_, _, _, _), WriteInts(_, _)

\* for i in x.elements.iter() { try!(write_value(writer, i)); }, from index k
WriteElements(es, k, ord) ==
    IF k > Len(es) THEN Wrote(<<>>)
    ELSE AndThen(write_value(es[k], ord), WriteElements(es, k + 1, ord))

\* for (nam, val) in x.elements.iter() { try!(write_tag(writer, (nam, val))); },
\* from the k-th key of the iteration
WriteEntries(m, keys, k, ord) ==
    IF k > Len(keys) THEN Wrote(<<>>)
    ELSE AndThen(write_tag(keys[k], m[keys[k]], ord), WriteEntries(m, keys, k + 1, ord))

\* for i in x { try!(write_primitive(writer, *i)); }, from index k
WriteInts(xs, k) ==
    IF k > Len(xs) THEN Wrote(<<>>)
    ELSE AndThen(write_primitive("i32", xs[k]), WriteInts(xs, k + 1))

write_value_no_terminator(tag, ord) ==
    CASE tag.type = "End" -> WriteErr("Invalid")
      [] tag.type \in ScalarTypes -> write_primitive(PayloadType(tag.type), tag.val)
      [] tag.type = "ByteArray" ->
            AndThen(write_primitive("i32", UsizeAs(Len(tag.bytes), 32)), Wrote(tag.bytes))
      [] tag.type = "String" -> write_string(tag.str)
      [] tag.type = "List" ->
            AndThen(write_primitive("i8", U8As(to_binary(tag.element_type), 8)),
            AndThen(write_primitive("i32", UsizeAs(Len(tag.elements), 32)),
                    WriteElements(tag.elements, 1, ord)))
      [] tag.type = "Compound" ->
            IF DOMAIN tag.map = {} THEN Wrote(<<>>)
            ELSE AndThen(WriteEntries(tag.map, IterOrder(tag.map, ord), 1, ord),
                         write_primitive("i8", IntBits(0, 8)))
      [] tag.type = "IntArray" ->
            AndThen(write_primitive("i32", UsizeAs(Len(tag.ints), 32)),
                    WriteInts(tag.ints, 1))

\* write_value(writer, tag)
write_value(tag, ord) ==
    CASE tag.type = "End" -> WriteErr("Invalid")
      [] tag.type \in ScalarTypes -> write_primitive(PayloadType(tag.type), tag.val)
      [] tag.type = "ByteArray" ->
            AndThen(write_primitive("i32", UsizeAs(Len(tag.bytes), 32)), Wrote(tag.bytes))
      [] tag.type = "String" -> write_string(tag.str)
      [] tag.type = "List" ->
            AndThen(write_primitive("i8", U8As(to_binary(tag.element_type), 8)),
            AndThen(write_primitive("i32", UsizeAs(Len(tag.elements), 32)),
                    WriteElements(tag.elements, 1, ord)))
      [] tag.type = "Compound" ->
            AndThen(WriteEntries(tag.map, IterOrder(tag.map, ord), 1, ord),
                    write_primitive("i8", IntBits(0, 8)))
      [] tag.type = "IntArray" ->
            AndThen(write_primitive("i32", UsizeAs(Len(tag.ints), 32)),
                    WriteInts(tag.ints, 1))

\* write_tag(writer, (name, tag))
write_tag(name, tag, ord) ==
    AndThen(write_primitive("i8", U8As(to_binary(get_type(tag)), 8)),
    AndThen(write_string(name),
    AndThen(write_value(tag, ord),
            Flushed)))

\* ------------------------------------------------------------------------
\* decode.rs.  The reader is an in-memory stream with a cursor: read(buf)
\* copies as many of the remaining bytes as fit into buf, leaves the rest of
\* buf as it was (zero) and never fails.  A step's outcome is its Result
\* ("Panic" when the call unwinds), the value, and the cursor after it.
\* ------------------------------------------------------------------------
ROk(v, p) == [res |-> "Ok", val |-> v, pos |-> p]
RErr(e, p) == [res |-> e, pos |-> p]

Min(a, b) == IF a < b THEN a ELSE b

\* let mut buf = [0; n]; reader.read(&mut buf)?
Read(bs, p, n) ==
    [buf |-> [i \in 1..n |-> IF p + i <= Len(bs) THEN bs[p + i] ELSE 0],
     pos |-> Min(p + n, Len(bs))]

\* how many bytes the UTF-8 sequence led by b0 has; 0 when b0 leads none
Utf8Width(b0) ==
    CASE b0 < 128 -> 1
      [] b0 \in 194..223 -> 2
      [] b0 \in 224..239 -> 3
      [] b0 \in 240..244 -> 4
      [] OTHER -> 0

\* the values the byte after the lead byte b0 may take
Utf8Second(b0) ==
    CASE b0 = 224 -> 160..191
      [] b0 = 237 -> 128..159
      [] b0 = 240 -> 144..191
      [] b0 = 244 -> 128..143
      [] OTHER -> 128..191

RECURSIVE from_utf8_lossy_at(_, _)
\* String::from_utf8_lossy, from index i: a well-formed sequence is kept, a
\* maximal ill-formed one becomes U+FFFD (EF BF BD)
from_utf8_lossy_at(b, i) ==
    IF i > Len(b) THEN <<>>
    ELSE LET w == Utf8Width(b[i])
             Fits(k) == /\ i + k <= Len(b)
                        /\ b[i + k] \in (IF k = 1 THEN Utf8Second(b[i]) ELSE 128..191)
             good == IF w = 0 THEN 0
                     ELSE CHOOSE g \in 0..(w - 1) :
                            /\ \A k \in 1..g : Fits(k)
                            /\ g < w - 1 => ~Fits(g + 1)
         IN IF w > 0 /\ good = w - 1
            THEN SubSeq(b, i, i + w - 1) \o from_utf8_lossy_at(b, i + w)
            ELSE <<239, 191, 189>> \o from_utf8_lossy_at(b, i + good + 1)

\* String::from_utf8_lossy: input that is all ASCII is well formed and is
\* returned as it is
from_utf8_lossy(b) ==
    IF \A i \in 1..Len(b) : b[i] < 128 THEN b ELSE from_utf8_lossy_at(b, 1)

\* `let x = r?; K(x)`: an Err (or a panic) of r returns at once; else the
\* rest of the function runs on r's value and cursor
Try(r, K(_)) == IF r.res # "Ok" THEN RErr(r.res, r.pos) ELSE K(r)

\* match T::from_bytes(&slice) { Some(x) => Ok(x), None => Err(Malformed) }
OkOrMalformed(x, p) == IF x.some THEN ROk(x.v, p) ELSE RErr("Malformed", p)

\* the buffer and the cursor after reader.read(&mut buf)
WithRead(r, K(_, _)) == K(r.buf, r.pos)

\* read_primitive::<R, T>(reader), T = t
read_primitive(bs, p, t) ==
    WithRead(Read(bs, p, size_of(t)), LAMBDA slice, q : OkOrMalformed(from_bytes(t, slice), q))

\* the length a signed integer of width w gives when cast to usize and handed
\* to vec![0; len] or Vec::with_capacity(len): a negative one is above
\* isize::MAX and the allocation panics with a capacity overflow
AsUsize(x, w, p) ==
    IF (w - 1) \in x THEN RErr("Panic", p) ELSE ROk(SignedVal(x, w), p)

\* read_string(reader)
read_string(bs, p) ==
    WithRead(Read(bs, p, 2), LAMBDA raw_name_len, q :
      Try(AsUsize(from_bytes("i16", raw_name_len).v, 16, q), LAMBDA name_len :
        IF name_len.val > 0
        THEN WithRead(Read(bs, q, name_len.val), LAMBDA raw_name_dat, q2 :
               ROk(from_utf8_lossy(raw_name_dat), q2))
        ELSE ROk(<<>>, q)))

RECURSIVE read_value(_, _, _), read_tag(_, _), ReadElements(_, _, _, _, _), ReadEntries(_, _, _), ReadInts(_, _, _, _)

ReadElementsOneShort(bs, p, tt, n, acc) ==
    IF n <= 1 THEN ROk(acc, p)
    ELSE Try(read_value(bs, p, tt), LAMBDA e :
           ReadElements(bs, e.pos, tt, n - 1, Append(acc, e.val)))

\* for _ in 0 .. len { vec.push(read_value(reader, tt.unwrap())?); }, with n
\* rounds left and vec = acc
ReadElements(bs, p, tt, n, acc) ==
    IF n <= 0 THEN ROk(acc, p)
    ELSE Try(read_value(bs, p, tt), LAMBDA e :
           ReadElements(bs, e.pos, tt, n - 1, Append(acc, e.val)))

\* loop { match read_tag(reader) { Ok((_, Tag::End)) => break,
\*        Ok((n, v)) => map.insert(n, v), Err(e) => return Err(e) } }
ReadEntries(bs, p, map) ==
    Try(read_tag(bs, p), LAMBDA t :
      IF t.val.tag.type = "End" THEN ROk(map, t.pos)
      ELSE ReadEntries(bs, t.pos, (t.val.name :> t.val.tag) @@ map))

\* for _ in 0 .. len { ints.push(read_primitive::<_, i32>(reader)?); }
ReadInts(bs, p, n, acc) ==
    IF n <= 0 THEN ROk(acc, p)
    ELSE Try(read_primitive(bs, p, "i32"), LAMBDA e :
           ReadInts(bs, e.pos, n - 1, Append(acc, e.val)))

\* a named tag, the Ok value of read_tag
Named(name, tag) == [name |-> name, tag |-> tag]

\* read_value(reader, vtype).  TagType has no LongArray variant (types.rs) and
\* from_binary yields none, so that arm of the match is never taken.
read_value(bs, p, vtype) ==
    CASE vtype = "End" -> RErr("Malformed", p)
      [] vtype \in ScalarTypes ->
            Try(read_primitive(bs, p, PayloadType(vtype)), LAMBDA x :
              ROk(TagScalar(vtype, x.val), x.pos))
      [] vtype = "ByteArray" ->
            Try(read_primitive(bs, p, "i32"), LAMBDA l :
            Try(AsUsize(l.val, 32, l.pos), LAMBDA len :
              WithRead(Read(bs, len.pos, len.val), LAMBDA bytes, q :
                ROk(TagByteArray(bytes), q))))
      [] vtype = "String" ->
            Try(read_string(bs, p), LAMBDA x : ROk(TagString(x.val), x.pos))
      [] vtype = "List" ->
            Try(read_primitive(bs, p, "i8"), LAMBDA et :
            Try(read_primitive(bs, et.pos, "i32"), LAMBDA l :
              IF ~from_binary(AsU8(et.val)).some /\ AsU8(et.val) # 0
              THEN RErr("Malformed", l.pos)
              ELSE Try(AsUsize(l.val, 32, l.pos), LAMBDA len :
                   Try(ReadElements(bs, len.pos, from_binary(AsU8(et.val)).v, len.val, <<>>),
                       LAMBDA vec :
                         ROk(TagList(from_binary(AsU8(et.val)).v, vec.val), vec.pos)))))
      [] vtype = "Compound" ->
            Try(ReadEntries(bs, p, <<>>), LAMBDA m : ROk(TagCompound(m.val), m.pos))
      [] vtype = "IntArray" ->
            Try(read_primitive(bs, p, "i32"), LAMBDA l :
            Try(AsUsize(l.val, 32, l.pos), LAMBDA len :
            Try(ReadInts(bs, len.pos, len.val, <<>>), LAMBDA ints :
              ROk(TagIntArray(ints.val), ints.pos))))

\* if let Some(t) = TagType::from_binary(header[0]) { .. } else { Err(Malformed) }
read_tag(bs, p) ==
    WithRead(Read(bs, p, 1), LAMBDA header, q :
      IF ~from_binary(header[1]).some THEN RErr("Malformed", q)
      ELSE IF from_binary(header[1]).v = "End" THEN ROk(Named(<<>>, TagEnd), q)
      ELSE Try(read_string(bs, q), LAMBDA name :
           Try(read_value(bs, name.pos, from_binary(header[1]).v), LAMBDA v :
             ROk(Named(name.val, v.val), v.pos))))

\* ------------------------------------------------------------------------
\* The Encoder and the Decoder
\* ------------------------------------------------------------------------
MaxWrites == 2
MaxReads == 3

\* the Encoder after a write_tag call with outcome r.  The log keeps the
\* arguments, the Result, where the call's bytes lie in the sink, how often
\* the call flushed and how many bytes it wrote after its last flush.
Appended(name, tag, ord, r) ==
    /\ sink' = sink \o r.bytes
    /\ flushes' = flushes + r.flushes
    /\ wlog' = Append(wlog, [name |-> name, tag |-> tag, ord |-> ord, res |-> r.res,
                             at |-> Len(sink), len |-> Len(r.bytes),
                             flushes |-> r.flushes, pending |-> r.pending])

\* Encoder::write_tag(tag), with the given iteration order of the HashMaps
EncoderWriteTag(name, tag, ord) ==
    /\ dec = "none"
    /\ Len(wlog) < MaxWrites
    /\ Appended(name, tag, ord, write_tag(name, tag, ord))
    /\ UNCHANGED <<dec, stream, pos, rlog, call, ret>>

\* Decoder::from_reader(reader), the reader holding the bytes written so far.
\* A sink that holds the leftover of an aborted write is not handed on.
DecoderFromReader ==
    /\ dec = "none"
    /\ \A i \in 1..Len(wlog) : wlog[i].res = "Ok"
    /\ dec' = "ready"
    /\ stream' = sink
    /\ pos' = 0
    /\ UNCHANGED <<sink, flushes, wlog, rlog, call, ret>>

\* the Decoder after a read_tag call with outcome r.  The log keeps the
\* Result and the cursor before (pos) and after (to) the call.
Consumed(r) ==
    /\ rlog' = Append(rlog, [r EXCEPT !.pos = pos] @@ [to |-> r.pos])
    /\ pos' = r.pos
    /\ dec' = IF r.res = "Panic" THEN "panicked" ELSE "ready"

\* Decoder::read_tag().  A panic unwinds through the caller: no later call.
DecoderReadTag ==
    /\ dec = "ready"
    /\ Len(rlog) < MaxReads
    /\ Consumed(read_tag(stream, pos))
    /\ UNCHANGED <<sink, flushes, wlog, stream, call, ret>>

\* ------------------------------------------------------------------------
\* Calls of the pure functions
\* ------------------------------------------------------------------------
\* the number whose big-endian bytes are bs, as a bit set
Pat(bs) == UNION {{8 * (Len(bs) - k) + i : i \in ByteBits(bs[k])} : k \in 1..Len(bs)}

SampleBits16 == {0, 1, 7, 8, 14, 15}
SampleBits32 == {0, 7, 8, 15, 16, 24, 31}
SampleBits64 == {0, 7, 8, 31, 32, 55, 56, 63}

\* -0.0, 1.0, -3.14, a NaN with a payload, +inf, the smallest subnormal
SampleF32 == {Pat(<<128, 0, 0, 0>>), Pat(<<63, 128, 0, 0>>), Pat(<<192, 72, 245, 195>>),
              Pat(<<127, 192, 0, 1>>), Pat(<<127, 128, 0, 0>>), Pat(<<0, 0, 0, 1>>),
              Pat(<<128, 64, 0, 0>>)}
SampleF64 == {Pat(<<128, 0, 0, 0, 0, 0, 0, 0>>), Pat(<<63, 240, 0, 0, 0, 0, 0, 0>>),
              Pat(<<192, 9, 30, 184, 81, 235, 133, 31>>),
              Pat(<<127, 248, 0, 0, 0, 0, 0, 1>>)}

\* the values each numeric type is tried on: every i8, and the numbers built
\* from the boundary bits of the wider types
NumValues(t) ==
    CASE t = "i8" -> SUBSET (0..7)
      [] t = "i16" -> SUBSET SampleBits16
      [] t = "i32" -> SUBSET SampleBits32
      [] t = "i64" -> SUBSET SampleBits64
      [] t = "f32" -> SampleF32 \cup SUBSET {0, 22, 23, 30, 31}
      [] t = "f64" -> SampleF64 \cup SUBSET {0, 51, 52, 62, 63}

\* the slices from_bytes is tried on after to_bytes returned b: b itself, b
\* cut short at either end, b with a byte too many, and the empty slice
SlicesOf(b) ==
    {b, SubSeq(b, 1, Len(b) - 1), SubSeq(b, 2, Len(b)), b \o <<0>>, <<255>> \o b, <<>>}

\* the tags from_nbt is tried on
NbtTags ==
    {TagEnd, TagString(<<>>), TagString(<<97>>), TagByteArray(<<1>>), TagIntArray(<<>>),
     TagList("Byte", <<>>), TagCompound(<<>>)}
      \cup {TagScalar("Byte", x) : x \in SUBSET {0, 1, 6, 7}}
      \cup {TagScalar("Short", x) : x \in SUBSET {0, 7, 8, 15}}
      \cup {TagScalar("Int", x) : x \in SUBSET {0, 15, 16, 31}}
      \cup {TagScalar("Long", x) : x \in SUBSET {0, 31, 32, 63}}
      \cup {TagScalar("Float", x) : x \in SampleF32}
      \cup {TagScalar("Double", x) : x \in SampleF64}

\* a call not made yet: the function and its arguments
FnInputs ==
    {[fn |-> "to_bytes", t |-> tx[1], x |-> tx[2], done |-> FALSE]
        : tx \in UNION {{<<t, x>> : x \in NumValues(t)} : t \in NumTypes}}
      \cup {[fn |-> "to_binary", t |-> t, of |-> -1, done |-> FALSE] : t \in TagTypes}
      \cup {[fn |-> "from_binary", b |-> b, of |-> "none", done |-> FALSE] : b \in 0..255}
      \cup {[fn |-> "from_nbt", target |-> tt[1], tag |-> tt[2], done |-> FALSE]
              : tt \in FromNbtTargets \X NbtTags}

CallToBytes ==
    /\ call.fn = "to_bytes" /\ ~call.done
    /\ call' = [call EXCEPT !.done = TRUE]
    /\ ret' = to_bytes(call.t, call.x)
    /\ UNCHANGED <<sink, flushes, wlog, dec, stream, pos, rlog>>

\* from_bytes on a slice made from what to_bytes just returned; `of` keeps the
\* type and the value those bytes were made from
CallFromBytes ==
    /\ call.fn = "to_bytes" /\ call.done
    /\ \E t \in NumTypes : \E d \in SlicesOf(ret) :
          /\ call' = [fn |-> "from_bytes", t |-> t, d |-> d, done |-> TRUE,
                      of |-> [t |-> call.t, x |-> call.x, whole |-> (d = ret)]]
          /\ ret' = from_bytes(t, d)
    /\ UNCHANGED <<sink, flushes, wlog, dec, stream, pos, rlog>>

\* to_binary, on any TagType, or on the TagType from_binary just returned for
\* the byte `of`
CallToBinary ==
    /\ \/ /\ call.fn = "to_binary" /\ ~call.done
          /\ call' = [call EXCEPT !.done = TRUE]
          /\ ret' = to_binary(call.t)
       \/ /\ call.fn = "from_binary" /\ call.done /\ call.of = "none" /\ ret.some
          /\ call' = [fn |-> "to_binary", t |-> ret.v, of |-> call.b, done |-> TRUE]
          /\ ret' = to_binary(ret.v)
    /\ UNCHANGED <<sink, flushes, wlog, dec, stream, pos, rlog>>

\* from_binary, on any byte, or on the byte to_binary just returned for the
\* TagType `of`
CallFromBinary ==
    /\ \/ /\ call.fn = "from_binary" /\ ~call.done
          /\ call' = [call EXCEPT !.done = TRUE]
          /\ ret' = from_binary(call.b)
       \/ /\ call.fn = "to_binary" /\ call.done /\ call.of = -1
          /\ call' = [fn |-> "from_binary", b |-> ret, of |-> call.t, done |-> TRUE]
          /\ ret' = from_binary(ret)
    /\ UNCHANGED <<sink, flushes, wlog, dec, stream, pos, rlog>>

CallFromNbt ==
    /\ call.fn = "from_nbt" /\ ~call.done
    /\ call' = [call EXCEPT !.done = TRUE]
    /\ ret' = from_nbt(call.target, call.tag)
    /\ UNCHANGED <<sink, flushes, wlog, dec, stream, pos, rlog>>

NoCall == [fn |-> "none", done |-> FALSE]

InitCodec ==
    /\ sink = <<>>
    /\ flushes = 0
    /\ wlog = <<>>
    /\ dec = "none"
    /\ stream = <<>>
    /\ pos = 0
    /\ rlog = <<>>

InitFn == InitCodec /\ call \in FnInputs /\ ret = None

NextFn ==
    \/ CallToBytes
    \/ CallFromBytes
    \/ CallToBinary
    \/ CallFromBinary
    \/ CallFromNbt

SpecFn == InitFn /\ [][NextFn]_vars


\* ------------------------------------------------------------------------
\* Properties of the pure functions, checked under SpecFn
\* ------------------------------------------------------------------------
\* the byte width the contract states for each numeric type
StatedWidth(t) ==
    CASE t = "i8" -> 1 [] t = "i16" -> 2 [] t = "i32" -> 4 [] t = "i64" -> 8
      [] t = "f32" -> 4 [] t = "f64" -> 8

\* bit j of the byte b
BitOfByte(b, j) == (b \div (2 ^ j)) % 2 = 1

\* C3: numeric codec inverse law.  to_bytes(x) has exactly N bytes for an
\* N-byte type and is the big-endian layout of x (bit j of byte k, counted
\* from the most significant byte, is bit 8*(N-k)+j of x), and from_bytes of
\* those bytes, at the same type, returns Some(x) bit for bit.
C3_CodecInverse ==
    /\ (call.fn = "to_bytes" /\ call.done) =>
          /\ Len(ret) = StatedWidth(call.t)
          /\ \A k \in 1..Len(ret) : \A j \in 0..7 :
                BitOfByte(ret[k], j) <=> (8 * (StatedWidth(call.t) - k) + j) \in call.x
    /\ (call.fn = "from_bytes" /\ call.of.whole /\ call.t = call.of.t) =>
          ret = Some(call.of.x)

\* -3.14f32, the crate's own test value, came back from its four bytes
C3_Witness ==
    /\ call.fn = "from_bytes" /\ call.of.whole
    /\ call.t = "f32" /\ call.of.t = "f32"
    /\ call.d = <<192, 72, 245, 195>>
    /\ ret = Some(Pat(<<192, 72, 245, 195>>))

\* C7: length enforcement.  from_bytes on a slice whose length is not exactly
\* the type's width returns None, for shorter and for longer slices.
C7_LengthEnforced ==
    (call.fn = "from_bytes" /\ Len(call.d) # StatedWidth(call.t)) => ret = None

\* a slice one byte too long for an i16 was refused
C7_Witness ==
    /\ call.fn = "from_bytes" /\ call.t = "i16" /\ Len(call.d) = 3
    /\ ret = None

\* C8: type-code mapping.  to_binary maps every TagType into 0..11;
\* from_binary(to_binary(t)) = Some(t) (so to_binary is injective);
\* to_binary(from_binary(b)) = b for every b in 0..11 (so the image is all of
\* 0..11); from_binary(b) = None for b in 12..255.
C8_TypeCodeMapping ==
    /\ (call.fn = "to_binary" /\ call.done) => ret \in 0..11
    /\ (call.fn = "from_binary" /\ call.done /\ call.of # "none") => ret = Some(call.of)
    /\ (call.fn = "to_binary" /\ call.done /\ call.of # -1) => ret = call.of
    /\ (call.fn = "from_binary" /\ call.done) =>
          /\ call.b \in 0..11 => (ret.some /\ ret.v \in TagTypes)
          /\ call.b \in 12..255 => ret = None

\* String went to its code and came back as String
C8_Witness ==
    /\ call.fn = "from_binary" /\ call.done /\ call.of = "String"
    /\ ret = Some("String")

\* the number a w-bit two's-complement bit set stands for: n when it lies in
\* the 32-bit range, else the bits themselves
NumberOf(x, w) ==
    LET k == IF w < 32 THEN w - 1 ELSE 31
        neg == (w - 1) \in x
        small == \A i \in k..(w - 1) : (i \in x) <=> neg
        mag == BitsToNat(x \cap (0..(k - 1)))
    IN IF small
       THEN [small |-> TRUE, n |-> IF neg THEN (mag - 2 ^ (k - 1)) - 2 ^ (k - 1) ELSE mag,
             bits |-> {}]
       ELSE [small |-> FALSE, n |-> 0, bits |-> x]

\* C10: integer promotion in FromNbt.  An integer target of width W gets
\* Some(v), v numerically equal to the tag's value, exactly from the integer
\* tags of width at most W, and None from every other tag; f64 accepts Float
\* and Double, f32 only Float.
C10_Promotion ==
    (call.fn = "from_nbt" /\ call.done) =>
       LET ty == call.tag.type IN
       /\ call.target \in {"i8", "i16", "i32", "i64"} =>
             /\ ret.some <=> (/\ ty \in {"Byte", "Short", "Int", "Long"}
                              /\ StatedWidth(PayloadType(ty)) <= StatedWidth(call.target))
             /\ ret.some => NumberOf(ret.v, 8 * StatedWidth(call.target))
                              = NumberOf(call.tag.val, 8 * StatedWidth(PayloadType(ty)))
       /\ call.target = "f64" => (ret.some <=> ty \in {"Float", "Double"})
       /\ call.target = "f32" => (ret.some <=> ty = "Float")

\* TByte(-128) was promoted to the i32 -128
C10_Witness ==
    /\ call.fn = "from_nbt" /\ call.done
    /\ call.target = "i32" /\ call.tag = TagScalar("Byte", {7})
    /\ ret.some /\ NumberOf(ret.v, 32).n = -128


\* ------------------------------------------------------------------------
\* The inputs of the Encoder and the Decoder
\* ------------------------------------------------------------------------
NameEmpty == <<>>
NameA == <<97>>
Names == {NameEmpty, NameA}

\* the iteration orders a HashMap may have: every arrangement of the names
Orders == {o \in [1..Cardinality(Names) -> Names] : \A i, j \in 1..Cardinality(Names) : o[i] = o[j] => i = j}

TByte(n) == TagScalar("Byte", IntBits(n, 8))
TShort(n) == TagScalar("Short", IntBits(n, 16))
TInt(n) == TagScalar("Int", IntBits(n, 32))

ScalarTags ==
    {TByte(-1), TByte(5), TShort(258), TInt(-2), TagScalar("Long", {0, 40, 63}),
     TagScalar("Float", {31}), TagScalar("Float", Pat(<<127, 192, 0, 1>>)),
     TagScalar("Double", Pat(<<192, 9, 30, 184, 81, 235, 133, 31>>))}

ArrayTags ==
    {TagString(<<>>), TagString(<<97>>), TagString(<<195, 169>>),
     TagByteArray(<<>>), TagByteArray(<<0, 255>>),
     TagIntArray(<<>>), TagIntArray(<<IntBits(1, 32), IntBits(-1, 32)>>)}

ListTags ==
    {TagList("End", <<>>), TagList("Byte", <<>>),
     TagList("Short", <<TShort(1), TShort(2), TShort(3)>>),
     TagList("String", <<TagString(<<97>>), TagString(<<>>)>>),
     TagList("List", <<TagList("Byte", <<TByte(5)>>), TagList("End", <<>>)>>),
     TagList("Compound", <<TagCompound(<<>>), TagCompound(NameA :> TByte(5))>>)}

CompoundTags ==
    {TagCompound(<<>>),
     TagCompound((NameA :> TInt(5))
                   @@ (NameEmpty :> TagList("Short", <<TShort(1), TShort(2), TShort(3)>>))),
     TagCompound(NameA :> TagCompound(NameA :> TagString(<<97>>))),
     TagCompound(NameEmpty :> TagCompound(<<>>))}

\* tag trees with an End inside
EndTags ==
    {TagEnd,
     TagList("Byte", <<TByte(5), TagEnd, TByte(-1)>>),
     TagList("End", <<TagEnd>>),
     TagCompound((NameA :> TagEnd) @@ (NameEmpty :> TInt(5))),
     TagCompound(NameA :> TagList("Byte", <<TagEnd>>))}

Tags == ScalarTags \cup ArrayTags \cup ListTags \cup CompoundTags \cup EndTags

RECURSIVE HasWideMap(_)
\* whether some Compound of the tree has two entries or more, so that the
\* iteration order shows in the bytes
HasWideMap(tag) ==
    CASE tag.type = "List" -> \E i \in 1..Len(tag.elements) : HasWideMap(tag.elements[i])
      [] tag.type = "Compound" ->
            \/ Cardinality(DOMAIN tag.map) >= 2
            \/ \E n \in DOMAIN tag.map : HasWideMap(tag.map[n])
      [] OTHER -> FALSE

\* the orders worth telling apart for a tag: all of them when a map has two
\* entries, else one
OrdersFor(tag) ==
    IF HasWideMap(tag) THEN Orders ELSE {CHOOSE o \in Orders : TRUE}

\* the tags tried as a second and later write to the same sink
FollowTags == {TByte(5), TagString(<<97>>), TagCompound(<<>>), TagEnd}

WriteTag ==
    \E name \in Names : \E tag \in (IF wlog = <<>> THEN Tags ELSE FollowTags) :
      \E ord \in OrdersFor(tag) :
        EncoderWriteTag(name, tag, ord)

Init == InitCodec /\ call = NoCall /\ ret = None

Next ==
    \/ WriteTag
    \/ DecoderFromReader
    \/ DecoderReadTag

Spec == Init /\ [][Next]_vars

\* ------------------------------------------------------------------------
\* Strings and names too long for a 16-bit length
\* ------------------------------------------------------------------------
LongLens == {32766, 32767, 32768, 32769, 40000, 65535, 65536, 65537, 65540}

\* the string of n letters a
LongString(n) == [i \in 1..n |-> 97]

LongInputs ==
    UNION {{Named(NameA, TagString(LongString(n))),
            Named(LongString(n), TByte(5)),
            Named(NameEmpty, TagList("String", <<TagString(LongString(n)), TagString(<<97>>)>>))}
           : n \in LongLens}

\* one write_tag of a tag that holds a long string, or under a long name
WriteLongTag ==
    /\ wlog = <<>>
    /\ \E in \in LongInputs : \E ord \in OrdersFor(in.tag) :
          EncoderWriteTag(in.name, in.tag, ord)

NextLong ==
    \/ WriteLongTag
    \/ DecoderFromReader
    \/ DecoderReadTag

SpecLong == Init /\ [][NextLong]_vars

\* ------------------------------------------------------------------------
\* A Decoder over streams that no Encoder wrote
\* ------------------------------------------------------------------------
\* a list that breaks its declared element type: the Encoder does not check
MixedTags == {TagList("Byte", <<TShort(258)>>)}

\* tag trees with no End inside whose lists keep their declared type
ValidTags == ScalarTags \cup ArrayTags \cup ListTags \cup CompoundTags

\* what write_tag produces for the valid tags, under every name and order
Encodings ==
    {write_tag(n, t, o).bytes : n \in Names, t \in ValidTags \cup MixedTags, o \in Orders}

\* every proper prefix of every encoding, the empty stream among them
ProperPrefixes == UNION {{SubSeq(e, 1, k) : k \in 0..(Len(e) - 1)} : e \in Encodings}

\* bytes that are no type code
BadCodes == {12, 13, 127, 128, 255}

Tails == {<<>>, <<0>>, <<0, 0>>, <<1, 0, 0, 5>>, <<255>>}

\* a stream that opens with a byte that is no type code
BadHeadStreams == {<<b>> \o t : b \in BadCodes, t \in Tails}

\* the 2-byte length and the bytes of a name, as the grammar lays them out
NameBytes(n) == <<Len(n) \div 256, Len(n) % 256>> \o n

\* well-formed named tags that may precede the bad one inside a Compound
Entries ==
    {<<>>, <<1>> \o NameBytes(NameA) \o <<5>>,
     <<8, 0, 0, 0, 1, 97>> \o <<3>> \o NameBytes(NameA) \o <<0, 0, 0, 5>>,
     <<10>> \o NameBytes(NameA) \o <<0>>}

\* a Compound, or a list of Compounds, or a Compound in a Compound, with a
\* byte that is no type code where a nested named tag begins
BadNestedStreams ==
    UNION {{<<10>> \o NameBytes(n) \o e \o <<b>> \o t,
            <<10>> \o NameBytes(n) \o <<10>> \o NameBytes(NameA) \o e \o <<b>> \o t,
            <<9>> \o NameBytes(n) \o <<10, 0, 0, 0, 2>> \o e \o <<0>> \o e \o <<b>> \o t}
           : n \in Names, e \in Entries, b \in BadCodes, t \in {<<>>, <<0>>, <<1, 0, 0, 5>>}}

ListCounts == {<<0, 0, 0, 0>>, <<0, 0, 0, 1>>, <<0, 0, 0, 3>>, <<255, 255, 255, 255>>, <<128, 0, 0, 0>>}

ListPayloads == {<<>>, <<7>>, <<1, 0, 0>>, <<0, 0, 1, 97>>, <<1, 0, 0, 0, 2, 5, 6>>, <<255, 254, 0, 3, 128>>}

\* a List under an empty or a short name: any element type code, a count that
\* may be negative or exceed what follows, and what follows
ListStreams ==
    {<<9>> \o NameBytes(n) \o <<et>> \o c \o pl
        : n \in Names, et \in {0, 1, 2, 9, 12, 200}, c \in ListCounts, pl \in ListPayloads}

DecStreams ==
    Encodings \cup ProperPrefixes \cup BadHeadStreams \cup BadNestedStreams \cup ListStreams

\* Decoder::from_reader over one of these streams
InitDec ==
    /\ sink = <<>>
    /\ flushes = 0
    /\ wlog = <<>>
    /\ dec = "ready"
    /\ stream \in DecStreams
    /\ pos = 0
    /\ rlog = <<>>
    /\ call = NoCall
    /\ ret = None

NextDec == DecoderReadTag

SpecDec == InitDec /\ [][NextDec]_vars

\* ------------------------------------------------------------------------
\* Properties of the Encoder and the Decoder
\* ------------------------------------------------------------------------
RECURSIVE HasEnd(_)
\* whether End occurs in the tree as a value to write
HasEnd(tag) ==
    CASE tag.type = "End" -> TRUE
      [] tag.type = "List" -> \E i \in 1..Len(tag.elements) : HasEnd(tag.elements[i])
      [] tag.type = "Compound" -> \E n \in DOMAIN tag.map : HasEnd(tag.map[n])
      [] OTHER -> FALSE

RECURSIVE WellTyped(_)
\* whether every list of the tree holds elements of its declared type only
WellTyped(tag) ==
    CASE tag.type = "List" ->
            \A i \in 1..Len(tag.elements) :
                /\ tag.elements[i].type = tag.element_type
                /\ WellTyped(tag.elements[i])
      [] tag.type = "Compound" -> \A n \in DOMAIN tag.map : WellTyped(tag.map[n])
      [] OTHER -> TRUE

\* a valid tag tree
ValidTree(tag) == ~HasEnd(tag) /\ WellTyped(tag)

\* the bytes the i-th write_tag call put into the sink
Written(i) == SubSeq(sink, wlog[i].at + 1, wlog[i].at + wlog[i].len)

\* C1: round trip.  When write_tag of a valid tag tree under a name returned
\* Ok and read_tag then reads the produced bytes, it returns Ok with the same
\* name and a structurally equal tag (element type of an empty list and the
\* bits of floats included).
C1_RoundTrip ==
    (/\ Len(wlog) >= 1 /\ Len(rlog) >= 1
     /\ wlog[1].res = "Ok" /\ ValidTree(wlog[1].tag))
        => /\ rlog[1].res = "Ok"
           /\ rlog[1].val = Named(wlog[1].name, wlog[1].tag)

\* C2: short-read abort.  On a stream that is a proper prefix of a well-formed
\* encoding (the empty stream included) read_tag returns an error, never a tag.
C2_ShortReadAborts ==
    (Len(rlog) >= 1 /\ stream \in ProperPrefixes) => rlog[1].res \notin {"Ok", "Panic"}

\* C4: malformed type code.  A stream whose first byte is outside 0..11, and
\* a stream in which such a byte stands where a named tag nested in a
\* Compound begins, make the top-level read_tag return Err(Malformed): no
\* panic, no tag.
C4_MalformedTypeCode ==
    Len(rlog) >= 1 =>
       /\ (stream # <<>> /\ stream[1] \notin 0..11) => rlog[1].res = "Malformed"
       /\ stream \in BadNestedStreams => rlog[1].res = "Malformed"

\* the second Compound of a list, after a first one with two entries, opened
\* an entry with the byte 255
C4_Witness ==
    /\ Len(rlog) >= 1
    /\ stream = <<9, 0, 0, 10, 0, 0, 0, 2>>
                  \o <<8, 0, 0, 0, 1, 97, 3, 0, 1, 97, 0, 0, 0, 5>> \o <<0>>
                  \o <<8, 0, 0, 0, 1, 97, 3, 0, 1, 97, 0, 0, 0, 5>> \o <<255>>
    /\ rlog[1].res = "Malformed"

RECURSIVE EndAs(_, _)
\* the tree with every End replaced by the Byte v
EndAs(tag, v) ==
    CASE tag.type = "End" -> TagScalar("Byte", IntBits(v, 8))
      [] tag.type = "List" ->
            TagList(tag.element_type, [i \in 1..Len(tag.elements) |-> EndAs(tag.elements[i], v)])
      [] tag.type = "Compound" ->
            TagCompound([n \in DOMAIN tag.map |-> EndAs(tag.map[n], v)])
      [] OTHER -> tag

\* how many leading bytes two sequences share
CommonPrefixLen(a, b) ==
    CHOOSE k \in 0..Min(Len(a), Len(b)) :
        /\ \A j \in 1..k : a[j] = b[j]
        /\ k < Min(Len(a), Len(b)) => a[k + 1] # b[k + 1]

\* C5: a bare End is not serializable.  A write_tag whose tag holds an End
\* (at the top, in a List, in a Compound, at any depth) returns Err(Invalid)
\* and stops there.  The place is found by writing the tree twice with a Byte
\* for each End, once the Byte 1 and once the Byte 2: the two outputs part
\* where the first End's value would begin.  Exactly that many bytes were
\* written, and they are the bytes of those outputs but for the type code 0
\* written where a named End begins (a Byte's code is 1).
C5_EndAborts ==
    \A i \in 1..Len(wlog) :
       HasEnd(wlog[i].tag) =>
          LET e1 == write_tag(wlog[i].name, EndAs(wlog[i].tag, 1), wlog[i].ord).bytes
              e2 == write_tag(wlog[i].name, EndAs(wlog[i].tag, 2), wlog[i].ord).bytes
              k == CommonPrefixLen(e1, e2)
          IN /\ wlog[i].res = "Invalid"
             /\ wlog[i].len = k
             /\ \A j \in 1..k : \/ Written(i)[j] = e1[j]
                                \/ Written(i)[j] = 0 /\ e1[j] = 1

\* the list [5, End, -1] of declared type Byte, written under the name a,
\* stopped after the header and the first element
C5_Witness ==
    /\ Len(wlog) >= 1
    /\ wlog[1].name = NameA
    /\ wlog[1].tag = TagList("Byte", <<TByte(5), TagEnd, TByte(-1)>>)
    /\ wlog[1].res = "Invalid"
    /\ sink = <<9, 0, 1, 97, 1, 0, 0, 0, 3, 5>>

\* C6: empty compound.  write_tag of (Name, empty Compound) returns Ok and
\* writes exactly 10 (the code of Compound), the 2-byte big-endian length of
\* Name, the bytes of Name, and 0; and read_tag at the head of those bytes
\* returns (Name, Compound with an empty map) and consumes exactly them.
C6_EmptyCompound ==
    /\ \A i \in 1..Len(wlog) :
          wlog[i].tag = TagCompound(<<>>) =>
             /\ wlog[i].res = "Ok"
             /\ Written(i) = <<10>> \o NameBytes(wlog[i].name) \o <<0>>
    /\ \A j \in 1..Len(rlog) : \A n \in Names :
          (/\ rlog[j].pos + 4 + Len(n) <= Len(stream)
           /\ SubSeq(stream, rlog[j].pos + 1, rlog[j].pos + 4 + Len(n))
                 = <<10>> \o NameBytes(n) \o <<0>>)
             => /\ rlog[j].res = "Ok"
                /\ rlog[j].val = Named(n, TagCompound(<<>>))
                /\ rlog[j].to = rlog[j].pos + 4 + Len(n)

\* the empty Compound named a was written as 10, 0, 1, 97, 0 and read back
C6_Witness ==
    /\ Len(wlog) = 1 /\ Len(rlog) >= 1
    /\ wlog[1].tag = TagCompound(<<>>)
    /\ stream = <<10, 0, 1, 97, 0>>
    /\ rlog[1].val = Named(NameA, TagCompound(<<>>))

RECURSIVE Homogeneous(_)
\* every List of the tree holds elements of its declared type only, and none
\* when that type is End
Homogeneous(tag) ==
    CASE tag.type = "List" ->
            /\ \A i \in 1..Len(tag.elements) :
                  /\ get_type(tag.elements[i]) = tag.element_type
                  /\ Homogeneous(tag.elements[i])
            /\ tag.element_type = "End" => tag.elements = <<>>
      [] tag.type = "Compound" -> \A n \in DOMAIN tag.map : Homogeneous(tag.map[n])
      [] OTHER -> TRUE

\* the byte of the stream at index i, 0 past its end
StreamByte(i) == IF i <= Len(stream) THEN stream[i] ELSE 0

\* C9: decoder list homogeneity.  Every List in a tag tree that read_tag
\* returned holds elements of its declared type only, and none when the type
\* code is End.  For a List at the top of the stream whose header is all
\* there, the number of elements is the 32-bit count of the header, and the
\* elements of a Byte or Short list are the bytes that follow, in stream
\* order (0 past the end of the stream).
C9_ListHomogeneity ==
    /\ \A j \in 1..Len(rlog) : rlog[j].res = "Ok" => Homogeneous(rlog[j].val.tag)
    /\ (/\ Len(rlog) >= 1 /\ rlog[1].res = "Ok"
        /\ Len(stream) >= 8 /\ stream[1] = 9
        /\ Len(stream) >= 8 + stream[2] * 256 + stream[3])
          => LET h == 3 + stream[2] * 256 + stream[3]
                 l == rlog[1].val.tag
             IN /\ l.type = "List"
                /\ stream[h + 2] < 128
                /\ Len(l.elements) = ((stream[h + 2] * 256 + stream[h + 3]) * 256
                                         + stream[h + 4]) * 256 + stream[h + 5]
                /\ stream[h + 1] = 1 =>
                      \A i \in 1..Len(l.elements) :
                         l.elements[i] = TagScalar("Byte", Pat(<<StreamByte(h + 5 + i)>>))
                /\ stream[h + 1] = 2 =>
                      \A i \in 1..Len(l.elements) :
                         l.elements[i] = TagScalar("Short",
                            Pat(<<StreamByte(h + 4 + 2 * i), StreamByte(h + 5 + 2 * i)>>))

\* a list of three Shorts of which the stream holds the first two and half of
\* the third
C9_Witness ==
    /\ Len(rlog) >= 1 /\ rlog[1].res = "Ok"
    /\ stream = <<9, 0, 0, 2, 0, 0, 0, 3, 255, 254, 0, 3, 128>>
    /\ rlog[1].val.tag = TagList("Short", <<TShort(-2), TShort(3), TShort(-32768)>>)


\* ------------------------------------------------------------------------
\* The length prefix of strings and names
\* ------------------------------------------------------------------------
\* the 2-byte length prefix at bytes k, k + 1 of w, read as read_string reads
\* it: a signed 16-bit integer
PrefixAt(w, k) == SignedVal(from_bytes("i16", SubSeq(w, k, k + 1)).v, 16)

\* w, the bytes of one named tag: the prefix of the name is the number of
\* bytes of the name that follow it, and so for the String that is the value
PrefixesMatch(w, name, tag) ==
    /\ PrefixAt(w, 2) = Len(name)
    /\ SubSeq(w, 4, 3 + Len(name)) = name
    /\ tag.type = "String" =>
          /\ PrefixAt(w, 4 + Len(name)) = Len(w) - (5 + Len(name))
          /\ SubSeq(w, 6 + Len(name), Len(w)) = tag.str

\* C11: string length prefix.  In the bytes of every write_tag that returned
\* Ok, the 2-byte big-endian length prefix of the name, read as a signed
\* 16-bit integer, is the number of bytes of the name written after it, and
\* likewise for a String value, whatever the length.
C11_StringLengthPrefix ==
    \A i \in 1..Len(wlog) :
       wlog[i].res = "Ok" => PrefixesMatch(Written(i), wlog[i].name, wlog[i].tag)


\* ------------------------------------------------------------------------
\* Several tags in one stream
\* ------------------------------------------------------------------------
\* r, the outcome of read_tag at the head of bytes that are one whole named
\* tag: the pair that was written, and every byte consumed
WholeTag(r, n, w) ==
    /\ r.res = "Ok"
    /\ r.pos = n
    /\ r.val = Named(w.name, w.tag)

\* the j-th read_tag call returned the pair of the j-th write_tag call and
\* moved the cursor from the first byte of that call's bytes past their last
ReadsBack(r, w) ==
    /\ r.res = "Ok"
    /\ r.val = Named(w.name, w.tag)
    /\ r.pos = w.at
    /\ r.to = w.at + w.len

\* C12: stream framing.  When the tags written to one sink so far are valid
\* trees, each write_tag call returned Ok, appended to the sink the bytes of
\* exactly one complete named tag, and ended with a flush; and the j-th
\* read_tag call over the produced bytes returns the j-th pair, consuming
\* exactly the bytes of the j-th call and leaving the cursor where the next
\* begin.
C12_StreamFraming ==
    /\ \A i \in 1..Len(wlog) :
          (\A k \in 1..i : ValidTree(wlog[k].tag)) =>
             /\ wlog[i].res = "Ok"
             /\ wlog[i].at = (IF i = 1 THEN 0 ELSE wlog[i - 1].at + wlog[i - 1].len)
             /\ wlog[i].at + wlog[i].len <= Len(sink)
             /\ wlog[i].flushes >= 1
             /\ wlog[i].pending = 0
             /\ WholeTag(read_tag(Written(i), 0), wlog[i].len, wlog[i])
    /\ \A j \in 1..Min(Len(rlog), Len(wlog)) :
          (\A k \in 1..j : ValidTree(wlog[k].tag)) => ReadsBack(rlog[j], wlog[j])
============================================================================
